---- MODULE Spec2Model ----
(* drive-crawl: the resumable paginated crawl (list_files, restore_data,    *)
(* save_data, init_ctrlc) and the tree report (show_tree, dfs) of           *)
(* src/src/main.rs.                                                         *)
EXTENDS Integers, Sequences, FiniteSets, TLC

(* ------------------------------------------------------------------ *)
(* Bounds of the model and constants of the program                   *)
(* ------------------------------------------------------------------ *)

\* The remote listing has at most this many pages.
MaxPages == 21
\* Ctrl-C notifications that can sit in the channel at once.
MaxSignals == 1
\* list.len() % 10 == 0 (main.rs:199)
SavePeriod == 10
\* The page token of the first request, "" (main.rs:165), as token number 0.
EmptyToken == 0
\* The records of a generated show_tree input.
NumFiles == 3
\* The records of a generated show_overview input.
OverviewFiles == 2
\* f.quota_bytes_used.unwrap_or(0) > 1024 (main.rs:224)
MinNotOwnedBytes == 1024
\* 1 << 20 (main.rs:268)
MiB == 1048576
\* if size_sum >= 50 * (1 << 20)
Threshold == 50 * MiB

(* ------------------------------------------------------------------ *)
(* Data: Option, pages, the checkpoint file                           *)
(* ------------------------------------------------------------------ *)

\* Option<T>: None is the empty sequence, Some(t) the one-element sequence.
None == <<>>
Some(t) == <<t>>

\* FileList as far as the crawl reads it: the page's place in the remote
\* listing (standing for its files) and its next_page_token. The token the
\* remote hands out with page i is i: tokens are opaque and pairwise distinct.
Page(i, more) == [idx |-> i, next |-> IF more THEN Some(i) ELSE None]

\* The first n pages of the listing; the last one carries a token iff more.
PageList(n, more) == [i \in 1..n |-> Page(i, i < n \/ more)]

\* ignore/file-list.json: absent, or a file holding the serialisation of a
\* page list up to some page; whole says the JSON document is complete.
Missing == [kind |-> "missing", pages |-> <<>>, whole |-> FALSE]
Complete(l) == [kind |-> "file", pages |-> l, whole |-> TRUE]
Partial(l, j) == [kind |-> "file", pages |-> SubSeq(l, 1, j), whole |-> FALSE]

Max(S) == CHOOSE m \in S : \A k \in S : k <= m

VARIABLES
  disk,        \* ignore/file-list.json
  pc,          \* where list_files is
  list,        \* let mut list
  token,       \* let token, the page token of the request in flight
  ctrlc,       \* messages waiting in the mpsc channel of init_ctrlc
  site,        \* which save_data call of list_files is running
  res,         \* what list_files returned
  disk0,       \* history: the file when this invocation started
  fetches,     \* history: the page tokens requested by this invocation
  savedLens,   \* history: list lengths for which save_data returned Ok
  ioFault,     \* history: an I/O operation of save_data failed
  sigPc,       \* history: where list_files was when Ctrl-C was sent
  sigFetches,  \* history: how many requests had been issued by then
  files,       \* show_tree: the flattened records
  tpc,         \* show_tree: where it is
  children,    \* show_tree: parent_id_to_children
  next_i,      \* show_tree: position of the running loop
  stack,       \* show_tree: the dfs call stack
  out,         \* show_tree: the lines printed
  visits,      \* history: the nodes dfs was called on, in call order
  returns,     \* history: what each dfs call returned, in return order
  tres         \* what show_tree returned

crawlVars == <<disk, pc, list, token, ctrlc, site, res, disk0, fetches,
               savedLens, ioFault, sigPc, sigFetches>>
treeVars == <<files, tpc, children, next_i, stack, out, visits, returns,
              tres>>
vars == <<crawlVars, treeVars>>

(* ------------------------------------------------------------------ *)
(* restore_data, save_data                                            *)
(* ------------------------------------------------------------------ *)

\* Mutant: a file that does not parse is read as the empty list.
restore_data_default(d, allow_not_found) ==
  IF d.kind = "file"
    THEN [ok |-> TRUE, list |-> IF d.whole THEN d.pages ELSE <<>>]
    ELSE [ok |-> allow_not_found, list |-> <<>>]

\* restore_data(allow_not_found) on file d: Ok(list) or Err.
restore_data(d, allow_not_found) ==
  IF d.kind = "file"
    THEN IF d.whole THEN [ok |-> TRUE, list |-> d.pages]
                    ELSE [ok |-> FALSE, list |-> <<>>]
    ELSE IF allow_not_found THEN [ok |-> TRUE, list |-> <<>>]
                            ELSE [ok |-> FALSE, list |-> <<>>]

\* fs_err::File::create(path): the file exists and is empty.
Created(l) == Partial(l, 0)

\* What the file holds once the BufWriter has flushed j pages of list l.
Flushed(l, j) == Partial(l, j)

\* What the file holds once all of serde_json::to_writer's output is flushed.
Written(l) == Complete(l)

(* ------------------------------------------------------------------ *)
(* list_files                                                         *)
(* ------------------------------------------------------------------ *)

\* Mutant: resumes from the first restored page's token, not the last one's.
next_token_first(l) ==
  IF l = <<>> THEN Some(EmptyToken) ELSE l[1].next

\* Mutant: treats a token-less last page as "start over from the first page".
next_token_restart(l) ==
  IF l = <<>> \/ l[Len(l)].next = None THEN Some(EmptyToken) ELSE l[Len(l)].next

\* match list.last(): None is the terminal case, Some(t) the token to request.
next_token(l) ==
  IF l = <<>> THEN Some(EmptyToken) ELSE l[Len(l)].next

\* Mutant: the periodic save is never due.
SaveDue_Never(l) == FALSE

\* Mutant: the periodic save comes every 11 pages.
SaveDue_Late(l) == Len(l) % (SavePeriod + 1) = 0

\* if list.len() % 10 == 0
SaveDue(l) == Len(l) % SavePeriod = 0

Running == pc \notin {"done", "killed", "off"}
InSave == pc \in {"save_create", "save_write", "save_drop"}

\* Calling save_data(&list) from the given call site.
CallSave(s) ==
  /\ pc' = "save_create"
  /\ site' = s

\* list_files returns r.
Return(r) ==
  /\ pc' = "done"
  /\ res' = r

treeIdle ==
  /\ files = <<>>
  /\ tpc = "off"
  /\ children = <<>>
  /\ next_i = 0
  /\ stack = <<>>
  /\ out = <<>>
  /\ visits = <<>>
  /\ returns = <<>>
  /\ tres = "none"

\* Checkpoint files a crawl can find: none, a complete one, a torn one.
InitDisks ==
  {Missing}
    \cup {Complete(PageList(n, more)) : n \in 0..MaxPages, more \in BOOLEAN}
    \cup {Partial(PageList(n, TRUE), j) : n \in 1..2, j \in 0..1}

StartDisk(d) ==
  d.kind = "file" /\ d.whole /\ d.pages # <<>> =>
    (d.pages[Len(d.pages)].next # None => Len(d.pages) < MaxPages)

Init ==
  /\ disk \in {d \in InitDisks : StartDisk(d)}
  /\ disk0 = disk
  /\ pc = "restore"
  /\ list = <<>>
  /\ token = EmptyToken
  /\ ctrlc = 0
  /\ site = "none"
  /\ res = "running"
  /\ fetches = <<>>
  /\ savedLens = {}
  /\ ioFault = FALSE
  /\ sigPc = "none"
  /\ sigFetches = 0
  /\ treeIdle

\* let mut list = restore_data(true)?;
Restore ==
  /\ pc = "restore"
  /\ LET r == restore_data(disk, TRUE) IN
       IF r.ok
         THEN /\ list' = r.list
              /\ pc' = "loop"
              /\ res' = res
         ELSE /\ Return("ErrRestore")
              /\ list' = list
  /\ UNCHANGED <<disk, token, ctrlc, site, disk0, fetches, savedLens,
                 ioFault, sigPc, sigFetches, treeVars>>

\* File::open fails with an error other than NotFound (main.rs:145).
RestoreOpenError ==
  /\ pc = "restore"
  /\ disk.kind = "file"
  /\ Return("ErrRestore")
  /\ UNCHANGED <<disk, list, token, ctrlc, site, disk0, fetches, savedLens,
                 ioFault, sigPc, sigFetches, treeVars>>

\* The head of the loop: the terminal case saves and breaks, every other
\* case issues the request with the token.
LoopHead ==
  /\ pc = "loop"
  /\ IF next_token(list) = None
       THEN /\ CallSave("final")
            /\ UNCHANGED <<token, fetches>>
       ELSE /\ token' = next_token(list)[1]
            /\ fetches' = Append(fetches, token')
            /\ pc' = "fetch"
            /\ site' = site
  /\ UNCHANGED <<disk, list, ctrlc, res, disk0, savedLens, ioFault, sigPc,
                 sigFetches,
                 treeVars>>

\* The request returns a page and the page converts: list.push(res).
FetchOk ==
  /\ pc = "fetch"
  /\ \E more \in BOOLEAN :
       /\ more => token + 1 < MaxPages
       /\ list' = Append(list, Page(token + 1, more))
  /\ pc' = "poll"
  /\ UNCHANGED <<disk, token, ctrlc, site, res, disk0, fetches, savedLens,
                 ioFault, sigPc, sigFetches, treeVars>>

\* Mutant: a failed request is tried again instead of ending the crawl.
FetchApiError_Retry ==
  /\ pc = "fetch"
  /\ pc' = "loop"
  /\ UNCHANGED <<disk, list, token, ctrlc, site, res, disk0, fetches,
                 savedLens, ioFault, sigPc, sigFetches, treeVars>>

\* let Ok(res) = ....doit().await else { break save_data(&list)? }
FetchApiError ==
  /\ pc = "fetch"
  /\ CallSave("abort_api")
  /\ UNCHANGED <<disk, list, token, ctrlc, res, disk0, fetches, savedLens,
                 ioFault, sigPc, sigFetches, treeVars>>

\* Mutant: a page that does not convert makes list_files return an error.
FetchConversionError_Bail ==
  /\ pc = "fetch"
  /\ Return("ErrFetch")
  /\ site' = "abort_conversion"
  /\ UNCHANGED <<disk, list, token, ctrlc, disk0, fetches, savedLens,
                 ioFault, sigPc, sigFetches, treeVars>>

\* let Ok(res) = FileList::try_from(res.1) else { break save_data(&list)? }
FetchConversionError ==
  /\ pc = "fetch"
  /\ CallSave("abort_conversion")
  /\ UNCHANGED <<disk, list, token, ctrlc, res, disk0, fetches, savedLens,
                 ioFault, sigPc, sigFetches, treeVars>>

\* Mutant: on Ctrl-C the loop breaks without saving.
Poll_BreakWithoutSave ==
  /\ pc = "poll"
  /\ IF ctrlc > 0
       THEN /\ ctrlc' = ctrlc - 1
            /\ Return("Ok")
            /\ site' = "drain"
       ELSE /\ ctrlc' = ctrlc
            /\ res' = res
            /\ IF SaveDue(list)
                 THEN CallSave("periodic")
                 ELSE pc' = "loop" /\ site' = site
  /\ UNCHANGED <<disk, list, token, disk0, fetches, savedLens, ioFault,
                 sigPc, sigFetches, treeVars>>

\* Mutant: the loop never looks at the channel.
Poll_IgnoreCtrlC ==
  /\ pc = "poll"
  /\ ctrlc' = ctrlc
  /\ IF SaveDue(list)
       THEN CallSave("periodic")
       ELSE pc' = "loop" /\ site' = site
  /\ UNCHANGED <<disk, list, token, res, disk0, fetches, savedLens, ioFault,
                 sigPc, sigFetches, treeVars>>

\* After the push: try_recv, then the periodic save.
Poll ==
  /\ pc = "poll"
  /\ IF ctrlc > 0
       THEN /\ ctrlc' = ctrlc - 1
            /\ CallSave("drain")
       ELSE /\ ctrlc' = ctrlc
            /\ IF SaveDue(list)
                 THEN CallSave("periodic")
                 ELSE pc' = "loop" /\ site' = site
  /\ UNCHANGED <<disk, list, token, res, disk0, fetches, savedLens, ioFault,
                 sigPc, sigFetches, treeVars>>

\* save_data: File::create truncates the file in place.
SaveCreate ==
  /\ pc = "save_create"
  /\ disk' = Created(list)
  /\ pc' = "save_write"
  /\ UNCHANGED <<list, token, ctrlc, site, res, disk0, fetches, savedLens,
                 ioFault, sigPc, sigFetches, treeVars>>

\* File::create fails: the closure returns the error, list_files returns it.
SaveCreateError ==
  /\ pc = "save_create"
  /\ Return("ErrSave")
  /\ ioFault' = TRUE
  /\ UNCHANGED <<disk, list, token, ctrlc, site, disk0, fetches, savedLens,
                 sigPc, sigFetches, treeVars>>

\* serde_json::to_writer runs; the BufWriter has flushed the first j pages
\* to the file whenever its buffer filled.
SaveWrite ==
  /\ pc = "save_write"
  /\ \E j \in 0..Len(list) : disk' = Flushed(list, j)
  /\ pc' = "save_drop"
  /\ UNCHANGED <<list, token, ctrlc, site, res, disk0, fetches, savedLens,
                 ioFault, sigPc, sigFetches, treeVars>>

\* A flush inside to_writer fails: to_writer returns the error.
SaveWriteError ==
  /\ pc = "save_write"
  /\ \E j \in 0..Len(list) : disk' = Flushed(list, j)
  /\ Return("ErrSave")
  /\ ioFault' = TRUE
  /\ UNCHANGED <<list, token, ctrlc, site, disk0, fetches, savedLens, sigPc,
                 sigFetches,
                 treeVars>>

\* save_data returned Ok(()): break, or go round the loop.
SaveReturn ==
  /\ savedLens' = savedLens \cup {Len(list)}
  /\ IF site = "periodic"
       THEN pc' = "loop" /\ res' = res
       ELSE Return("Ok")

\* to_writer returns and drops the BufWriter, whose drop flushes the rest.
SaveDrop ==
  /\ pc = "save_drop"
  /\ disk' = Written(list)
  /\ SaveReturn
  /\ UNCHANGED <<list, token, ctrlc, site, disk0, fetches, ioFault, sigPc,
                 sigFetches,
                 treeVars>>

\* The flush in BufWriter's drop fails: drop discards the error, and
\* save_data returns Ok(()) all the same.
SaveDropFlushError ==
  /\ pc = "save_drop"
  /\ ioFault' = TRUE
  /\ SaveReturn
  /\ UNCHANGED <<disk, list, token, ctrlc, site, disk0, fetches, sigPc,
                 sigFetches,
                 treeVars>>

\* Mutant: a Ctrl-C sent while a request is in flight cancels the request
\* and goes straight to the save.
CtrlC_CancelsFetch ==
  /\ Running
  /\ ctrlc < MaxSignals
  /\ sigPc' = IF ctrlc = 0 THEN pc ELSE sigPc
  /\ sigFetches' = IF ctrlc = 0 THEN Len(fetches) ELSE sigFetches
  /\ IF pc = "fetch"
       THEN /\ ctrlc' = ctrlc
            /\ CallSave("drain")
       ELSE /\ ctrlc' = ctrlc + 1
            /\ UNCHANGED <<pc, site>>
  /\ UNCHANGED <<disk, list, token, res, disk0, fetches, savedLens,
                 ioFault, treeVars>>

\* The ctrlc handler: sender.send(()).
CtrlC ==
  /\ Running
  /\ ctrlc < MaxSignals
  /\ ctrlc' = ctrlc + 1
  /\ sigPc' = IF ctrlc = 0 THEN pc ELSE sigPc
  /\ sigFetches' = IF ctrlc = 0 THEN Len(fetches) ELSE sigFetches
  /\ UNCHANGED <<disk, pc, list, token, site, res, disk0, fetches, savedLens,
                 ioFault, treeVars>>

\* The process is killed (or the machine loses power): memory is gone, the
\* file stays as it is.
Kill ==
  /\ Running
  /\ pc' = "killed"
  /\ list' = <<>>
  /\ token' = EmptyToken
  /\ ctrlc' = 0
  /\ site' = "none"
  /\ res' = "running"
  /\ fetches' = <<>>
  /\ savedLens' = {}
  /\ ioFault' = FALSE
  /\ sigPc' = "none"
  /\ sigFetches' = 0
  /\ UNCHANGED <<disk, disk0, treeVars>>

\* The program is started again with --list.
Restart ==
  /\ pc \in {"done", "killed"}
  /\ pc' = "restore"
  /\ disk0' = disk
  /\ list' = <<>>
  /\ token' = EmptyToken
  /\ ctrlc' = 0
  /\ site' = "none"
  /\ res' = "running"
  /\ fetches' = <<>>
  /\ savedLens' = {}
  /\ ioFault' = FALSE
  /\ sigPc' = "none"
  /\ sigFetches' = 0
  /\ UNCHANGED <<disk, treeVars>>

Next ==
  \/ Restore
  \/ RestoreOpenError
  \/ LoopHead
  \/ FetchOk
  \/ FetchApiError
  \/ FetchConversionError
  \/ Poll
  \/ SaveCreate
  \/ SaveCreateError
  \/ SaveWrite
  \/ SaveWriteError
  \/ SaveDrop
  \/ SaveDropFlushError
  \/ CtrlC
  \/ Kill
  \/ Restart

Spec == Init /\ [][Next]_vars

\* One invocation of list_files in which every file operation of save_data
\* succeeds and the process is not killed.
LiveNext ==
  \/ Restore
  \/ LoopHead
  \/ FetchOk
  \/ FetchApiError
  \/ FetchConversionError
  \/ Poll
  \/ SaveCreate
  \/ SaveWrite
  \/ SaveDrop
  \/ CtrlC

\* The steps of the main thread: each one is taken once it can be (the
\* thread runs, a request returns, a file operation returns). CtrlC is the
\* user's and is under no obligation.
MainThread ==
  \/ Restore
  \/ LoopHead
  \/ FetchOk
  \/ FetchApiError
  \/ FetchConversionError
  \/ Poll
  \/ SaveCreate
  \/ SaveWrite
  \/ SaveDrop

LiveSpec == Init /\ [][LiveNext]_vars /\ WF_vars(MainThread)

(* ------------------------------------------------------------------ *)
(* show_tree                                                          *)
(* ------------------------------------------------------------------ *)

\* The one parent id no generated record has as its id.
ExternalId == NumFiles + 1
Ids == 1..ExternalId

\* File as far as show_tree reads it (the name is printed, never read).
FileRec(i, ps, q) == [id |-> i, parents |-> ps, quota_bytes_used |-> q]

ParentChoices ==
  {<<>>} \cup {<<p>> : p \in Ids} \cup {<<1, ExternalId>>}
QuotaChoices == {None, Some(25 * MiB)}

\* Inputs given in full: A (10 MiB) with child B (45 MiB); one record of
\* 60 MiB that has no parent and no child; one record of exactly 50 MiB
\* under a folder that is not in the list.
ExampleInputs ==
  { <<FileRec(1, <<>>, Some(10 * MiB)), FileRec(2, <<1>>, Some(45 * MiB))>>,
    <<FileRec(1, <<>>, Some(60 * MiB))>>,
    <<FileRec(1, <<ExternalId>>, Some(50 * MiB))>> }

\* The flattened records of a checkpoint: ids are unique (record i has id i),
\* parents and sizes are free.
TreeInputs ==
  { [i \in 1..NumFiles |-> FileRec(i, ps[i], qs[i])] :
      ps \in [1..NumFiles -> ParentChoices],
      qs \in [1..NumFiles -> QuotaChoices] }
    \cup ExampleInputs

\* id_to_file.get(id): collect() keeps the last record of an id.
id_to_file(fs, id) ==
  LET S == {i \in 1..Len(fs) : fs[i].id = id} IN
    IF S = {} THEN None ELSE Some(Max(S))

\* files.iter().flat_map(|f| &f.parents): every parent reference, in order.
RECURSIVE Refs(_)
Refs(fs) ==
  IF fs = <<>> THEN <<>> ELSE fs[1].parents \o Refs(Tail(fs))

\* Node::File(file), by the record's position in files, and Node::Root.
FileNode(fs, i) == [kind |-> "File", id |-> fs[i].id, file |-> i]
RootNode(id) == [kind |-> "Root", id |-> id, file |-> 0]

\* Mutant: every record named as a parent starts a traversal, whether or
\* not it has a parent itself.
root_of_any(fs, id) ==
  LET f == id_to_file(fs, id) IN
    IF f = None THEN Some(RootNode(id)) ELSE Some(FileNode(fs, f[1]))

\* The filter_map closure of show_tree: the node a parent reference makes the
\* traversal start from, if any.
root_of(fs, id) ==
  LET f == id_to_file(fs, id) IN
    IF f = None THEN Some(RootNode(id))
    ELSE IF fs[f[1]].parents = <<>> THEN Some(FileNode(fs, f[1]))
    ELSE None

\* The first match of dfs: the node's own bytes.
own_size(fs, node) ==
  IF node.kind = "File" /\ fs[node.file].quota_bytes_used # None
    THEN fs[node.file].quota_bytes_used[1]
    ELSE 0

\* A dfs call in progress: its node, its depth, size_sum so far, and the
\* position of the for loop over the node's children.
Frame(fs, node, depth) ==
  [node |-> node, depth |-> depth, size_sum |-> own_size(fs, node), k |-> 1]

\* Mutant: a sum of exactly 50 MiB is not printed.
Printed_Strict(size_sum) == size_sum > Threshold

\* if size_sum >= 50 * (1 << 20)
Printed(size_sum) == size_sum >= Threshold

\* Mutant: the child's sum replaces the running sum.
Accumulate_Last(size_sum, child_sum) == child_sum

\* size_sum += dfs(id_to_children, Node::File(child), depth + 1)
Accumulate(size_sum, child_sum) == size_sum + child_sum

\* Mutant: the line comes out ahead of the lines printed so far.
Emit_First(o, line) == <<line>> \o o

\* println!: the line follows everything printed so far.
Emit(o, line) == Append(o, line)

crawlIdle ==
  /\ disk = Missing
  /\ pc = "off"
  /\ list = <<>>
  /\ token = EmptyToken
  /\ ctrlc = 0
  /\ site = "none"
  /\ res = "running"
  /\ disk0 = Missing
  /\ fetches = <<>>
  /\ savedLens = {}
  /\ ioFault = FALSE
  /\ sigPc = "none"
  /\ sigFetches = 0

TreeInit ==
  /\ crawlIdle
  /\ files \in TreeInputs
  /\ tpc = "build"
  /\ children = [id \in Ids |-> <<>>]
  /\ next_i = 1
  /\ stack = <<>>
  /\ out = <<>>
  /\ visits = <<>>
  /\ returns = <<>>
  /\ tres = "running"

\* What the dfs call of frame top prints and returns: its node, its
\* indentation, its size_sum; trav is the parent reference the traversal
\* started from.
Line(top) ==
  [node |-> top.node, depth |-> top.depth, size |-> top.size_sum,
   trav |-> next_i]

\* The loop is over: the next loop starts at its first element.
NextLoop(n, following) ==
  IF next_i < n
    THEN next_i' = next_i + 1 /\ tpc' = tpc
    ELSE next_i' = 1 /\ tpc' = following

\* Mutant: a record with several parents is left out of the map, as the
\* parentless ones are.
TreeBuild_SkipMulti ==
  /\ tpc = "build"
  /\ LET f == files[next_i] IN
       /\ children' = IF Len(f.parents) = 1
                        THEN [children EXCEPT ![f.parents[1]] = Append(@, next_i)]
                        ELSE children
       /\ NextLoop(Len(files), "roots")
       /\ tres' = tres
  /\ UNCHANGED <<files, stack, out, visits, returns, crawlVars>>

\* One turn of for file in &files: the record goes into
\* parent_id_to_children, or show_tree bails.
TreeBuild ==
  /\ tpc = "build"
  /\ LET f == files[next_i] IN
       CASE Len(f.parents) = 0 ->
              /\ children' = children
              /\ NextLoop(Len(files), "roots")
              /\ tres' = tres
         [] Len(f.parents) = 1 ->
              /\ children' = [children EXCEPT ![f.parents[1]] = Append(@, next_i)]
              /\ NextLoop(Len(files), "roots")
              /\ tres' = tres
         [] OTHER ->
              /\ children' = children
              /\ next_i' = next_i
              /\ tpc' = "done"
              /\ tres' = "Err"
  /\ UNCHANGED <<files, stack, out, visits, returns, crawlVars>>

\* One element of the iterator chain over the parent references: filtered
\* out, or for_each calls dfs(&parent_id_to_children, node, 0).
TreeRoot ==
  /\ tpc = "roots"
  /\ next_i <= Len(Refs(files))
  /\ LET n == root_of(files, Refs(files)[next_i]) IN
       IF n = None
         THEN /\ next_i' = next_i + 1
              /\ UNCHANGED <<tpc, stack, visits>>
         ELSE /\ stack' = <<Frame(files, n[1], 0)>>
              /\ visits' = Append(visits, n[1])
              /\ tpc' = "dfs"
              /\ next_i' = next_i
  /\ UNCHANGED <<files, children, out, returns, tres, crawlVars>>

\* The iterator is exhausted: Ok(()).
TreeDone ==
  /\ tpc = "roots"
  /\ next_i > Len(Refs(files))
  /\ tpc' = "done"
  /\ tres' = "Ok"
  /\ UNCHANGED <<files, children, next_i, stack, out, visits, returns,
                 crawlVars>>

\* for child in ...: size_sum += dfs(id_to_children, Node::File(child), depth + 1)
\* up to the call.
DfsCall ==
  /\ tpc = "dfs"
  /\ LET top == stack[Len(stack)]
         kids == children[top.node.id]
     IN /\ top.k <= Len(kids)
        /\ LET child == FileNode(files, kids[top.k]) IN
             /\ stack' = Append([stack EXCEPT ![Len(stack)].k = top.k + 1],
                                Frame(files, child, top.depth + 1))
             /\ visits' = Append(visits, child)
  /\ UNCHANGED <<files, tpc, children, next_i, out, returns, tres,
                 crawlVars>>

\* The for loop of a dfs call is over: the line is printed if the sum reaches
\* the threshold, and size_sum goes back to the caller.
DfsReturn ==
  /\ tpc = "dfs"
  /\ LET top == stack[Len(stack)]
         kids == children[top.node.id]
     IN /\ top.k > Len(kids)
        /\ out' = IF Printed(top.size_sum) THEN Emit(out, Line(top)) ELSE out
        /\ returns' = Append(returns, Line(top))
        /\ IF Len(stack) = 1
             THEN /\ stack' = <<>>
                  /\ tpc' = "roots"
                  /\ next_i' = next_i + 1
             ELSE /\ stack' = [SubSeq(stack, 1, Len(stack) - 1)
                                 EXCEPT ![Len(stack) - 1].size_sum =
                                   Accumulate(@, top.size_sum)]
                  /\ UNCHANGED <<tpc, next_i>>
  /\ UNCHANGED <<files, children, visits, tres, crawlVars>>

TreeNext ==
  \/ TreeBuild
  \/ TreeRoot
  \/ TreeDone
  \/ DfsCall
  \/ DfsReturn

TreeSpec == TreeInit /\ [][TreeNext]_vars

\* show_tree is sequential code: it always takes its next step.
TreeLiveSpec == TreeInit /\ [][TreeNext]_vars /\ WF_vars(TreeNext)

(* ------------------------------------------------------------------ *)
(* show_overview                                                      *)
(* ------------------------------------------------------------------ *)

\* The one parent id no generated show_overview record has as its id.
OverviewExternalId == OverviewFiles + 1

OverviewParentChoices ==
  {<<>>} \cup {<<p>> : p \in 1..OverviewExternalId}
    \cup {<<1, OverviewExternalId>>, <<1, 2>>}
OverviewQuotaChoices == {None, Some(500), Some(1024), Some(2048)}

OverviewInputs ==
  { [i \in 1..OverviewFiles |-> FileRec(i, ps[i], qs[i])] :
      ps \in [1..OverviewFiles -> OverviewParentChoices],
      qs \in [1..OverviewFiles -> OverviewQuotaChoices] }

\* let ids: HashSet<&str> = files.iter().map(|f| &f.id as &str).collect();
ids(fs) == {fs[i].id : i \in 1..Len(fs)}

\* files.iter().filter_map(|f| f.quota_bytes_used).sum()
RECURSIVE sum(_)
sum(fs) ==
  IF fs = <<>> THEN 0
  ELSE (IF fs[1].quota_bytes_used = None THEN 0 ELSE fs[1].quota_bytes_used[1])
         + sum(Tail(fs))

\* Mutant: every parent, not just one, has to be unknown.
not_owned_all(fs, f) ==
  /\ f.parents # <<>>
  /\ \A k \in 1..Len(f.parents) : f.parents[k] \notin ids(fs)
  /\ (IF f.quota_bytes_used = None THEN 0 ELSE f.quota_bytes_used[1])
       > MinNotOwnedBytes

\* Mutant: a record of exactly 1024 bytes passes the filter.
not_owned_inclusive(fs, f) ==
  /\ \E k \in 1..Len(f.parents) : f.parents[k] \notin ids(fs)
  /\ (IF f.quota_bytes_used = None THEN 0 ELSE f.quota_bytes_used[1])
       >= MinNotOwnedBytes

\* The filter of the "parents not owned by me" loop.
not_owned(fs, f) ==
  /\ \E k \in 1..Len(f.parents) : f.parents[k] \notin ids(fs)
  /\ (IF f.quota_bytes_used = None THEN 0 ELSE f.quota_bytes_used[1])
       > MinNotOwnedBytes

\* The filter of the "without a parent (or with multiple parents)" loop.
unusual_parents(f) == Len(f.parents) # 1

\* print_file(file) under the given heading.
FileLine(section, i) == [section |-> section, value |-> i]

OverviewInit ==
  /\ crawlIdle
  /\ files \in OverviewInputs
  /\ tpc = "sum"
  /\ children = <<>>
  /\ next_i = 1
  /\ stack = <<>>
  /\ out = <<>>
  /\ visits = <<>>
  /\ returns = <<>>
  /\ tres = "running"

\* println!("{sum}")
OverviewSum ==
  /\ tpc = "sum"
  /\ out' = Append(out, FileLine("sum", sum(files)))
  /\ tpc' = "unusual"
  /\ UNCHANGED <<files, children, next_i, stack, visits, returns, tres,
                 crawlVars>>

\* One turn of the first loop over files.
OverviewUnusual ==
  /\ tpc = "unusual"
  /\ out' = IF unusual_parents(files[next_i])
              THEN Append(out, FileLine("unusual", next_i))
              ELSE out
  /\ NextLoop(Len(files), "not_owned")
  /\ UNCHANGED <<files, children, stack, visits, returns, tres, crawlVars>>

\* One turn of the second loop over files; after the last one, Ok(()).
OverviewNotOwned ==
  /\ tpc = "not_owned"
  /\ out' = IF not_owned(files, files[next_i])
              THEN Append(out, FileLine("not_owned", next_i))
              ELSE out
  /\ NextLoop(Len(files), "done")
  /\ tres' = IF next_i < Len(files) THEN tres ELSE "Ok"
  /\ UNCHANGED <<files, children, stack, visits, returns, crawlVars>>

OverviewNext ==
  \/ OverviewSum
  \/ OverviewUnusual
  \/ OverviewNotOwned

OverviewSpec == OverviewInit /\ [][OverviewNext]_vars

(* ------------------------------------------------------------------ *)
(* Properties of the crawl                                            *)
(* ------------------------------------------------------------------ *)

Last(l) == l[Len(l)]

\* The checkpoint this invocation started from is a readable page list.
Readable(d) == d.kind = "file" /\ d.whole
\* The file is absent or a complete document: not empty, truncated or partial.
Intact(d) == d.kind = "missing" \/ d.whole
\* The number of pages the invocation started with.
N0 == IF Readable(disk0) THEN Len(disk0.pages) ELSE 0
\* list_files got past restore_data and its memory is still there.
Crawling == pc \notin {"restore", "killed", "off"} /\ res # "ErrRestore"
NoDup(s) == \A i, j \in 1..Len(s) : s[i] = s[j] => i = j
Aborting == site \in {"abort_api", "abort_conversion"}
\* No interrupt was received, no request failed, no file operation failed.
Undisturbed == ~ioFault /\ site \notin {"drain", "abort_api", "abort_conversion"}

\* C1 (resume correctness): started on a checkpoint of N >= 1 pages whose last
\* page has a token, list_files keeps those N pages as the prefix of list,
\* issues its first request with exactly that token, and never requests with
\* the empty token or with the token of an earlier page; an invocation that
\* returns Ok has issued that request. Started on no checkpoint or an empty
\* one, its first request uses the empty token.
C1_ResumeCorrect ==
  /\ Readable(disk0) /\ Crawling =>
       /\ Len(list) >= Len(disk0.pages)
       /\ SubSeq(list, 1, Len(disk0.pages)) = disk0.pages
  /\ Readable(disk0) /\ disk0.pages # <<>> /\ Last(disk0.pages).next # None =>
       /\ fetches # <<>> => fetches[1] = Last(disk0.pages).next[1]
       /\ \A i \in 1..Len(fetches) :
            /\ fetches[i] # EmptyToken
            /\ \A k \in 1..(Len(disk0.pages) - 1) :
                 Some(fetches[i]) # disk0.pages[k].next
       /\ res = "Ok" => fetches # <<>>
  /\ (disk0.kind = "missing" \/ (Readable(disk0) /\ disk0.pages = <<>>)) =>
       /\ fetches # <<>> => fetches[1] = EmptyToken
       /\ res = "Ok" => fetches # <<>>

\* C1: resumed on 3 pages, the crawl requested pages 4 and 5 and finished.
C1_Witness ==
  /\ disk0 = Complete(PageList(3, TRUE))
  /\ fetches = <<3, 4>>
  /\ list = PageList(5, FALSE)
  /\ pc = "done"
  /\ res = "Ok"

\* C2 (checkpoint atomicity): started on an intact checkpoint (absent or a
\* complete page list), the file is at every moment absent or a complete page
\* list, never empty, truncated or partial.
C2_CheckpointAtomic ==
  Intact(disk0) => Intact(disk)

\* C3 (interrupt durability): a poll that finds a Ctrl-C message in the
\* channel calls save_data on the pages in memory; from then on list does not
\* change and no request is issued; if list_files then returns Ok and no file
\* operation failed, the file holds exactly those pages.
C3_InterruptDurability ==
  /\ [][pc = "poll" /\ ctrlc > 0 /\ pc' \notin {"poll", "killed"} =>
          pc' = "save_create" /\ site' = "drain" /\ list' = list]_vars
  /\ [][site = "drain" /\ pc' \notin {"killed", "restore"} =>
          list' = list /\ fetches' = fetches /\ site' = "drain"]_vars
  /\ [](site = "drain" => InSave \/ pc = "done")
  /\ [](site = "drain" /\ pc = "done" =>
          /\ res \in {"Ok", "ErrSave"}
          /\ res = "Ok" => Len(list) \in savedLens
          /\ res = "Ok" /\ ~ioFault => disk = Complete(list))

\* C3: Ctrl-C arrived between the push of page 3 and the poll; the crawl
\* stopped with the file holding exactly the 3 pages.
C3_Witness ==
  /\ sigPc = "poll"
  /\ site = "drain"
  /\ pc = "done"
  /\ res = "Ok"
  /\ disk0 = Missing
  /\ fetches = <<0, 1, 2>>
  /\ Len(list) = 3
  /\ disk = Complete(list)

\* C4 (checkpoint cadence): in a crawl with no interrupt and no failure, when
\* a request is about to be or has been issued, save_data has returned Ok for
\* every multiple of 10 the list length has reached by an append; a periodic
\* save runs only at such a length; the crawl ends with a save of the whole
\* list made once the token-less page is in it (so there is at least one);
\* and outside save_data the file holds all pages of the latest save.
C4_CheckpointCadence ==
  /\ Undisturbed /\ pc \in {"loop", "fetch"} =>
       \A m \in (N0 + 1)..Len(list) : m % SavePeriod = 0 => m \in savedLens
  /\ InSave /\ site = "periodic" => Len(list) % SavePeriod = 0 /\ Len(list) > N0
  /\ Undisturbed /\ pc = "done" /\ res # "ErrRestore" =>
       /\ res = "Ok"
       /\ site = "final"
       /\ list # <<>>
       /\ Last(list).next = None
       /\ Len(list) \in savedLens
       /\ disk = Complete(list)
  /\ Undisturbed /\ Crawling /\ ~InSave /\ savedLens # {} =>
       /\ disk = Complete(SubSeq(list, 1, Max(savedLens)))

\* C4: a crawl of 21 pages from scratch saved at 10, at 20 and at the end.
C4_Witness ==
  /\ disk0 = Missing
  /\ sigPc = "none"
  /\ Undisturbed
  /\ pc = "done"
  /\ res = "Ok"
  /\ Len(list) = 21
  /\ savedLens = {10, 20, 21}
  /\ disk = Complete(list)

\* C5 (abort and checkpoint): after a failed request or a failed conversion
\* the page is not in list (list is the restored pages plus one page per
\* earlier request), no token is requested twice, the failed request is the
\* last one issued, control is in save_data or list_files has returned, and a
\* return of Ok means save_data returned Ok for exactly the pages in list
\* (which, no file operation having failed, are what the file holds).
C5_AbortAndCheckpoint ==
  /\ NoDup(fetches)
  /\ Aborting =>
       /\ InSave \/ pc = "done"
       /\ fetches # <<>>
       /\ Last(fetches) = token
       /\ Len(list) = N0 + Len(fetches) - 1
       /\ \A i \in 1..(Len(fetches) - 1) : list[N0 + i].idx = fetches[i] + 1
       /\ pc = "done" => res \in {"Ok", "ErrSave"}
       /\ res = "Ok" => Len(list) \in savedLens
       /\ res = "Ok" /\ ~ioFault => disk = Complete(list)

\* C5: the third request failed; the two pages fetched before are saved.
C5_Witness ==
  /\ site = "abort_api"
  /\ disk0 = Missing
  /\ fetches = <<0, 1, 2>>
  /\ Len(list) = 2
  /\ pc = "done"
  /\ res = "Ok"
  /\ disk = Complete(list)

\* The length of the list of the latest save_data that returned Ok, or of the
\* restored list when there is none yet.
LastSavedLen == IF savedLens = {} THEN N0 ELSE Max(savedLens)

\* C6 (bounded loss): list never holds more than 10 pages beyond the latest
\* completed save (or the restored checkpoint); and outside save_data, no
\* file operation having failed, restore_data reads from the file a prefix of
\* list that is at most 10 pages shorter.
C6_BoundedLoss ==
  /\ Crawling => Len(list) - LastSavedLen <= SavePeriod
  /\ Crawling /\ ~InSave /\ ~ioFault =>
       LET r == restore_data(disk, TRUE) IN
         /\ r.ok
         /\ Len(r.list) <= Len(list)
         /\ r.list = SubSeq(list, 1, Len(r.list))
         /\ Len(list) - Len(r.list) <= SavePeriod

\* C6: page 20 is in memory and the latest save holds 10 pages.
C6_Witness ==
  /\ pc = "poll"
  /\ Len(list) = 20
  /\ savedLens = {10}
  /\ disk = Complete(SubSeq(list, 1, 10))

\* C7 (checkpoint read on resume): with no checkpoint file list_files starts
\* from the empty list and its first request uses the empty token; with a
\* file that cannot be opened, read or parsed it returns an error having
\* issued no request and having left the file as it was.
C7_CheckpointRead ==
  /\ disk0.kind = "missing" /\ pc \notin {"restore", "killed"} =>
       /\ res # "ErrRestore"
       /\ fetches # <<>> => fetches[1] = EmptyToken
       /\ \A i \in 1..Len(list) : list[i].idx = i
  /\ disk0.kind = "file" /\ ~disk0.whole /\ pc \notin {"restore", "killed"} =>
       res = "ErrRestore"
  /\ res = "ErrRestore" =>
       /\ pc = "done"
       /\ disk0.kind = "file"
       /\ fetches = <<>>
       /\ savedLens = {}
       /\ disk = disk0

\* C7: a torn checkpoint made list_files return the error.
C7_Witness ==
  /\ disk0 = Partial(PageList(2, TRUE), 1)
  /\ pc = "done"
  /\ res = "ErrRestore"
  /\ disk = disk0

\* C8 (terminal condition): a request is only ever issued when list is empty
\* or its last page has a token; from the loop head with a token-less last
\* page the next step is the final save_data; a return of Ok after the final
\* save means the file holds list; and started on the checkpoint of a
\* completed crawl, list_files issues no request and, returning Ok with no
\* file operation failed, leaves the file equal to what it was.
C8_TerminalCondition ==
  /\ [][pc' = "fetch" /\ pc # "fetch" =>
          list = <<>> \/ Last(list).next # None]_vars
  /\ [](pc = "fetch" => list = <<>> \/ Last(list).next # None)
  /\ [][pc = "loop" /\ list # <<>> /\ Last(list).next = None
          /\ pc' \notin {"loop", "killed"} =>
          pc' = "save_create" /\ site' = "final" /\ list' = list]_vars
  /\ [](site = "final" =>
          /\ InSave \/ pc = "done"
          /\ list # <<>> /\ Last(list).next = None
          /\ res = "Ok" /\ ~ioFault => disk = Complete(list))
  /\ [](Readable(disk0) /\ disk0.pages # <<>>
          /\ Last(disk0.pages).next = None =>
          /\ fetches = <<>>
          /\ pc = "done" /\ res = "Ok" /\ ~ioFault => disk = disk0)

\* C8: list_files ran on the checkpoint of a completed 2-page crawl.
C8_Witness ==
  /\ disk0 = Complete(PageList(2, FALSE))
  /\ site = "final"
  /\ pc = "done"
  /\ res = "Ok"
  /\ fetches = <<>>
  /\ disk = disk0

(* ------------------------------------------------------------------ *)
(* Properties of show_tree                                            *)
(* ------------------------------------------------------------------ *)

HasMultiParent == \E i \in 1..Len(files) : Len(files[i].parents) > 1

Quota(f) == IF f.quota_bytes_used = None THEN 0 ELSE f.quota_bytes_used[1]

\* Following single parents upwards from record j reaches id in n steps or less.
RECURSIVE Reaches(_, _, _, _)
Reaches(fs, j, id, n) ==
  /\ n > 0
  /\ Len(fs[j].parents) = 1
  /\ \/ fs[j].parents[1] = id
     \/ LET p == id_to_file(fs, fs[j].parents[1]) IN
          p # None /\ Reaches(fs, p[1], id, n - 1)

\* The records below id in the parent relation.
Descendants(fs, id) == {j \in 1..Len(fs) : Reaches(fs, j, id, Len(fs))}

RECURSIVE SumQuota(_, _)
SumQuota(fs, S) ==
  IF S = {} THEN 0
  ELSE LET j == CHOOSE x \in S : TRUE IN
         Quota(fs[j]) + SumQuota(fs, S \ {j})

\* The bytes of record i and of everything below it.
Aggregate(fs, i) == Quota(fs[i]) + SumQuota(fs, Descendants(fs, fs[i].id))

Visited(node) == \E v \in 1..Len(visits) : visits[v] = node
HasLine(node) == \E l \in 1..Len(out) : out[l].node = node

\* C9 (multi-parent rejection): when some record has more than one parent,
\* show_tree never leaves the construction of parent_id_to_children except by
\* returning the error: dfs is never called and no line is printed; and it
\* returns an error only in that case.
C9_MultiParentRejection ==
  /\ HasMultiParent =>
       /\ tpc \in {"build", "done"}
       /\ tpc = "done" => tres = "Err"
       /\ visits = <<>>
       /\ stack = <<>>
       /\ out = <<>>
  /\ tres = "Err" => HasMultiParent /\ tpc = "done"

\* C9: the third record has two parents; without it the first record would
\* have been printed with 50 MiB.
C9_Witness ==
  /\ files = << FileRec(1, <<>>, Some(25 * MiB)),
                FileRec(2, <<1>>, Some(25 * MiB)),
                FileRec(3, <<1, ExternalId>>, Some(25 * MiB)) >>
  /\ tpc = "done"
  /\ tres = "Err"
  /\ out = <<>>

\* C10 (tree roots): when show_tree has returned Ok, dfs has been called on
\* every record whose parents is empty, and every such record whose aggregate
\* size is at least 50 MiB has a line in the output.
C10_TreeRoots ==
  tpc = "done" /\ tres = "Ok" =>
    \A i \in 1..Len(files) :
      files[i].parents = <<>> =>
        /\ Visited(FileNode(files, i))
        /\ Aggregate(files, i) >= Threshold => HasLine(FileNode(files, i))

\* The node's own bytes: quota_bytes_used of a record, 0 when it is absent
\* or the node is a synthesized Root.
NodeOwn(node) == IF node.kind = "File" THEN Quota(files[node.file]) ELSE 0

\* The records whose single parent is id.
ChildrenOf(id) == {j \in 1..Len(files) : files[j].parents = <<id>>}

RECURSIVE SumAggregate(_)
SumAggregate(S) ==
  IF S = {} THEN 0
  ELSE LET j == CHOOSE x \in S : TRUE IN
         Aggregate(files, j) + SumAggregate(S \ {j})

\* C11 (tree aggregation): every dfs call returns the node's own bytes plus
\* the sum of the aggregates of the records whose single parent is the
\* node's id, which is the total of the node's and all its descendants' bytes.
C11_TreeAggregation ==
  \A r \in 1..Len(returns) :
    LET n == returns[r].node IN
      /\ returns[r].size = NodeOwn(n) + SumAggregate(ChildrenOf(n.id))
      /\ returns[r].size = NodeOwn(n) + SumQuota(files, Descendants(files, n.id))

\* C11: record 1 has child 2, which has child 3, 25 MiB each: dfs returned
\* 75 MiB for record 1.
C11_Witness ==
  /\ files = << FileRec(1, <<>>, Some(25 * MiB)),
                FileRec(2, <<1>>, Some(25 * MiB)),
                FileRec(3, <<2>>, Some(25 * MiB)) >>
  /\ tpc = "done"
  /\ \E r \in 1..Len(returns) :
       returns[r].node = FileNode(files, 1) /\ returns[r].size = 75 * MiB

AtLeast50MiB(r) == r.size >= 50 * 1048576

\* C12 (print threshold): the lines printed are exactly the dfs calls, in
\* return order, whose sum is at least 50 * 2^20 bytes; for A (10 MiB, no
\* parent) and B (45 MiB, parent A) the output is the one line of A with
\* 55 MiB.
C12_PrintThreshold ==
  /\ out = SelectSeq(returns, AtLeast50MiB)
  /\ files = << FileRec(1, <<>>, Some(10 * MiB)),
                FileRec(2, <<1>>, Some(45 * MiB)) >> /\ tpc = "done" =>
       out = << [node |-> FileNode(files, 1), depth |-> 0, size |-> 55 * MiB,
                 trav |-> 1] >>

\* C12: the example has run: B returned 45 MiB unprinted, A is printed.
C12_Witness ==
  /\ files = << FileRec(1, <<>>, Some(10 * MiB)),
                FileRec(2, <<1>>, Some(45 * MiB)) >>
  /\ tpc = "done"
  /\ Len(returns) = 2
  /\ returns[1].node = FileNode(files, 2)
  /\ returns[1].size = 45 * MiB
  /\ Len(out) = 1
  /\ out[1].size = 55 * MiB

\* The parent ids that are the id of no record.
ExternalParents ==
  {id \in Ids : /\ \E i \in 1..Len(files) :
                     \E k \in 1..Len(files[i].parents) : files[i].parents[k] = id
                /\ id_to_file(files, id) = None}

\* C14 (one root per external parent): when show_tree has returned Ok, dfs
\* was called exactly once on the Root node of every external parent id, no
\* node was visited twice, and no node has two lines.
C14_OneRootPerExternalParent ==
  tpc = "done" /\ tres = "Ok" =>
    /\ \A id \in ExternalParents :
         Cardinality({v \in 1..Len(visits) : visits[v] = RootNode(id)}) = 1
    /\ NoDup(visits)
    /\ \A a, b \in 1..Len(out) : out[a].node = out[b].node => a = b

\* Node d lies below node n in the parent relation.
IsDescendant(d, n) ==
  d.kind = "File" /\ d.file \in Descendants(files, n.id)

\* C17 (post-order printing): of two lines of one traversal, that of a
\* descendant comes before that of its ancestor, and every line carries the
\* total of the node's and all its descendants' bytes.
C17_PostOrder ==
  /\ \A a, b \in 1..Len(out) :
       out[a].trav = out[b].trav /\ IsDescendant(out[b].node, out[a].node) =>
         b < a
  /\ \A a \in 1..Len(out) :
       out[a].size =
         NodeOwn(out[a].node)
           + SumQuota(files, Descendants(files, out[a].node.id))

\* C17: record 2 (with its child 3) is printed with 50 MiB, then its parent,
\* record 1, with 75 MiB.
C17_Witness ==
  /\ files = << FileRec(1, <<>>, Some(25 * MiB)),
                FileRec(2, <<1>>, Some(25 * MiB)),
                FileRec(3, <<2>>, Some(25 * MiB)) >>
  /\ tpc = "done"
  /\ Len(out) = 2
  /\ out[1].node = FileNode(files, 2) /\ out[1].size = 50 * MiB
  /\ out[2].node = FileNode(files, 1) /\ out[2].size = 75 * MiB
  /\ out[1].trav = out[2].trav

\* Following single parents upwards from record j ends, within n steps, at
\* a parentless record or at an id that is no record's.
RECURSIVE ChainEnds(_, _, _)
ChainEnds(fs, j, n) ==
  \/ fs[j].parents = <<>>
  \/ /\ Len(fs[j].parents) = 1
     /\ LET p == id_to_file(fs, fs[j].parents[1]) IN
          \/ p = None
          \/ n > 0 /\ ChainEnds(fs, p[1], n - 1)

\* Record j lies on a parent cycle or below one.
OnOrBelowCycle(j) == ~ChainEnds(files, j, Len(files))

\* C19 (termination on cyclic input): for records with unique ids, cycles
\* and self-parents included, show_tree comes to its end; the dfs stack
\* never holds a node twice nor more frames than there are records and one
\* Root; at the end every dfs call has returned; and a record on or below a
\* parent cycle is never visited and never printed.
C19_TreeTerminates ==
  /\ <>(tpc = "done")
  /\ [](/\ Len(stack) <= Len(files) + 1
        /\ \A a, b \in 1..Len(stack) : stack[a].node = stack[b].node => a = b)
  /\ [](tpc = "done" => stack = <<>> /\ Len(returns) = Len(visits))
  /\ [](\A j \in 1..Len(files) :
          OnOrBelowCycle(j) /\ ~HasMultiParent =>
            ~Visited(FileNode(files, j)) /\ ~HasLine(FileNode(files, j)))

\* C19: records 1 and 2 are each other's parent, record 3 sits under an
\* external folder: show_tree ended having visited that folder's Root and
\* record 3 only.
C19_Witness ==
  /\ files = << FileRec(1, <<2>>, Some(25 * MiB)),
                FileRec(2, <<1>>, Some(25 * MiB)),
                FileRec(3, <<ExternalId>>, Some(25 * MiB)) >>
  /\ tpc = "done"
  /\ tres = "Ok"
  /\ visits = <<RootNode(ExternalId), FileNode(files, 3)>>

\* The positions in out of record i's line under "parents not owned by me".
NotOwnedLines(i) ==
  {l \in 1..Len(out) : out[l] = [section |-> "not_owned", value |-> i]}

\* Some parent id of record i is the id of no record.
HasUnknownParent(i) ==
  \E k \in 1..Len(files[i].parents) :
    \A j \in 1..Len(files) : files[j].id # files[i].parents[k]

\* C13 (orphan/shared detection): when show_overview has returned, a record
\* has a line (exactly one) in the "parents not owned by me" report if and
\* only if one of its parent ids is no record's id and its quota_bytes_used
\* (absent counting as 0) is strictly greater than 1024; no record is listed
\* there before the report is reached.
C13_NotOwnedReport ==
  /\ tpc = "done" =>
       \A i \in 1..Len(files) :
         /\ NotOwnedLines(i) # {} <=>
              HasUnknownParent(i) /\ Quota(files[i]) > 1024
         /\ Cardinality(NotOwnedLines(i)) <= 1
  /\ \A i \in 1..Len(files) :
       NotOwnedLines(i) # {} =>
         tpc \in {"not_owned", "done"} /\ HasUnknownParent(i)
                                       /\ Quota(files[i]) > 1024

\* C13: of two records under the same unknown parent, the one of 2048 bytes
\* is listed and the one of 500 bytes is not.
C13_Witness ==
  /\ files = << FileRec(1, <<OverviewExternalId>>, Some(2048)),
                FileRec(2, <<OverviewExternalId>>, Some(500)) >>
  /\ tpc = "done"
  /\ tres = "Ok"
  /\ NotOwnedLines(1) # {}
  /\ NotOwnedLines(2) = {}

\* C15 (no mid-fetch cancellation): a message is taken from the channel only
\* by the poll that follows an append (never during a request or inside
\* save_data); sending Ctrl-C changes nothing but the channel; and after a
\* Ctrl-C sent while a request was in flight the request is still in flight,
\* no further loop turn starts, and if the request succeeded its page is the
\* last of list, save_data is called on that list, and (list_files returning
\* Ok, no file operation having failed) the file holds it.
C15_NoMidFetchCancellation ==
  /\ [][ctrlc' < ctrlc /\ pc' \notin {"killed", "restore"} =>
          pc = "poll" /\ pc' = "save_create" /\ site' = "drain"]_vars
  /\ [][pc' = "poll" /\ pc # "poll" =>
          pc = "fetch" /\ Len(list') = Len(list) + 1]_vars
  /\ [][ctrlc' > ctrlc =>
          /\ pc' = pc /\ site' = site /\ res' = res
          /\ list' = list /\ token' = token /\ fetches' = fetches
          /\ disk' = disk]_vars
  /\ [](sigPc = "fetch" =>
          /\ pc \in {"fetch", "poll", "done"} \/ InSave
          /\ fetches # <<>>
          /\ pc = "fetch" => Len(list) = N0 + Len(fetches) - 1
          /\ pc = "poll" \/ site = "drain" =>
               /\ Len(list) = N0 + Len(fetches)
               /\ Last(list).idx = Last(fetches) + 1
          /\ site = "drain" /\ pc = "done" =>
               /\ res \in {"Ok", "ErrSave"}
               /\ res = "Ok" => Len(list) \in savedLens
               /\ res = "Ok" /\ ~ioFault => disk = Complete(list))

\* C15: Ctrl-C arrived while the second request was in flight; the request
\* returned its page and the crawl stopped with both pages in the file.
C15_Witness ==
  /\ sigPc = "fetch"
  /\ site = "drain"
  /\ pc = "done"
  /\ res = "Ok"
  /\ ~ioFault
  /\ disk0 = Missing
  /\ fetches = <<0, 1>>
  /\ Len(list) = 2
  /\ disk = Complete(list)

\* C16 (checkpoint write failure): once a file operation of save_data has
\* failed (creating, writing or flushing, from whichever call site),
\* list_files has returned the save error: it is not in the loop, in a
\* request or in another save_data, and its result is not Ok.
C16_WriteFailureReturned ==
  ioFault => pc = "done" /\ res = "ErrSave"

\* C18 (interrupt response): in an invocation whose requests return and
\* whose file operations succeed, once Ctrl-C has been sent list_files issues
\* at most one request more than it had issued by then, it eventually
\* returns, and when it has returned Ok the file holds exactly the pages in
\* list (every page appended).
C18_InterruptResponse ==
  /\ [](sigPc # "none" => Len(fetches) <= sigFetches + 1)
  /\ (sigPc # "none") ~> (pc = "done")
  /\ [](sigPc # "none" /\ pc = "done" =>
          \/ res = "ErrRestore" /\ list = <<>> /\ fetches = <<>>
          \/ /\ res = "Ok"
             /\ Len(list) = N0 + Len(fetches) - (IF Aborting THEN 1 ELSE 0)
             /\ disk = Complete(list))

\* C18: Ctrl-C arrived before the second request was issued; that request
\* was the last, and the crawl stopped with both pages in the file.
C18_Witness ==
  /\ sigPc = "loop"
  /\ sigFetches = 1
  /\ fetches = <<0, 1>>
  /\ site = "drain"
  /\ pc = "done"
  /\ res = "Ok"
  /\ disk0 = Missing
  /\ Len(list) = 2
  /\ disk = Complete(list)

\* C20 (abort is reported as success): when list_files has returned after a
\* failed request or a failed conversion and no file operation of the save
\* that followed failed, it returned Ok with save_data having returned Ok for
\* the pages in list, as it does after the token-less page or an interrupt;
\* it returns an error only from restore_data at the start (a checkpoint file
\* exists, nothing was requested) or from a save_data in which a file
\* operation failed.
C20_AbortReportedAsSuccess ==
  /\ pc = "done" => res \in {"Ok", "ErrRestore", "ErrSave"}
  /\ Aborting /\ pc = "done" =>
       /\ res \in {"Ok", "ErrSave"}
       /\ ~ioFault => res = "Ok" /\ Len(list) \in savedLens
                                 /\ disk = Complete(list)
  /\ site \in {"final", "drain"} /\ pc = "done" /\ ~ioFault => res = "Ok"
  /\ res = "ErrSave" => pc = "done" /\ ioFault /\ site # "none"
  /\ res = "ErrRestore" =>
       /\ pc = "done" /\ site = "none"
       /\ disk0.kind = "file"
       /\ fetches = <<>> /\ list = <<>>

\* C20: the second page did not convert; the one page fetched before was
\* saved and list_files returned Ok.
C20_Witness ==
  /\ site = "abort_conversion"
  /\ pc = "done"
  /\ res = "Ok"
  /\ ~ioFault
  /\ disk0 = Missing
  /\ fetches = <<0, 1>>
  /\ Len(list) = 1
  /\ disk = Complete(list)

====
